---- MODULE Spec2Model ----
(***************************************************************************)
(* Model of cty/element_iterator.go: the iterator factory elementIterator  *)
(* and the four concrete iterators (list, map, set, tuple), driven by a    *)
(* caller that may request several iterators over one source value and     *)
(* call Next and Element on them in any order.                             *)
(***************************************************************************)
EXTENDS Integers, Sequences, FiniteSets, TLC

\* Longest native sequence / largest mapping or set of a source value.
MaxLen == 2
\* Number of Next calls the caller makes beyond the longest sequence.
ExtraNext == 2
\* Most iterators the caller requests from the one source value.
MaxIters == 2

(***************************************************************************)
(* Types (cty.Type): a tagged descriptor.  elems holds the element type of *)
(* a list, map or set (one entry) or the per-position types of a tuple.    *)
(***************************************************************************)
PrimT(name) == [kind |-> name, elems |-> <<>>]
String == PrimT("string")
Number == PrimT("number")
ListT(ety) == [kind |-> "list", elems |-> <<ety>>]
MapT(ety) == [kind |-> "map", elems |-> <<ety>>]
SetT(ety) == [kind |-> "set", elems |-> <<ety>>]
TupleT(etys) == [kind |-> "tuple", elems |-> etys]
ObjectT == [kind |-> "object", elems |-> <<>>]

IsListType(ty) == ty.kind = "list"
IsMapType(ty) == ty.kind = "map"
IsSetType(ty) == ty.kind = "set"
IsTupleType(ty) == ty.kind = "tuple"
ElementType(ty) == ty.elems[1]
TupleElementTypes(ty) == ty.elems

(***************************************************************************)
(* Native payloads (Value.v, an interface{}): the dynamic type is `shape`. *)
(*   slice  []interface{}             in seq                               *)
(*   map    map[string]interface{}    in map (a function on its key set)   *)
(*   set    set.Set                   in seq (the set's traversal order)   *)
(*   scalar anything else                                                  *)
(***************************************************************************)
SliceV(s) == [shape |-> "slice", seq |-> s, map |-> <<>>]
MapV(m) == [shape |-> "map", seq |-> <<>>, map |-> m]
SetV(s) == [shape |-> "set", seq |-> s, map |-> <<>>]
ScalarV == [shape |-> "scalar", seq |-> <<>>, map |-> <<>>]

\* Value{ty, v}
Value(ty, v) == [ty |-> ty, v |-> v]
NumberIntVal(i) == Value(Number, i)
StringVal(s) == Value(String, s)

(***************************************************************************)
(* Strings are byte sequences; Go compares them bytewise, a proper prefix  *)
(* being less than the longer string.                                      *)
(***************************************************************************)
RECURSIVE StrLess(_, _)
StrLess(a, b) ==
    IF b = <<>> THEN FALSE
    ELSE IF a = <<>> THEN TRUE
    ELSE IF Head(a) # Head(b) THEN Head(a) < Head(b)
    ELSE StrLess(Tail(a), Tail(b))

\* One insertion step of sort.Strings: k goes before the first key not less than it.
RECURSIVE Insert(_, _)
Insert(k, s) ==
    IF s = <<>> THEN <<k>>
    ELSE IF StrLess(Head(s), k) THEN <<Head(s)>> \o Insert(k, Tail(s))
    ELSE <<k>> \o s

RECURSIVE SortStrings(_)
SortStrings(keys) ==
    IF keys = <<>> THEN <<>>
    ELSE Insert(Head(keys), SortStrings(Tail(keys)))


(***************************************************************************)
(* set.Iterator, the cursor of the set abstraction (package cty/set):      *)
(* a single-pass cursor over the set's distinct elements in the set's own  *)
(* order.  Next moves it one element on and says whether an element is     *)
(* current; once past the last element it stays there.                     *)
(***************************************************************************)
set_Iterator(rawSet) == [elems |-> rawSet.seq, pos |-> 0]
set_Iterator_Next(sit) ==
    LET p == IF sit.pos <= Len(sit.elems) THEN sit.pos + 1 ELSE sit.pos
    IN  [sit |-> [sit EXCEPT !.pos = p], ret |-> p <= Len(sit.elems)]
set_Iterator_HasValue(sit) == sit.pos \in 1..Len(sit.elems)
set_Iterator_Value(sit) == sit.elems[sit.pos]

(***************************************************************************)
(* elementIterator(val).  order is the order in which `range rawMap`       *)
(* happens to enumerate the keys (used for a map only).  A failed type     *)
(* assertion on val.v and the default case panic: ok is FALSE and there is *)
(* no iterator.                                                            *)
(***************************************************************************)
NoIterator == [kind |-> "none"]
Panic == [ok |-> FALSE, it |-> NoIterator]
Return(it) == [ok |-> TRUE, it |-> it]

newListElementIterator(val) ==
    IF val.v.shape # "slice" THEN Panic
    ELSE Return([kind |-> "list", ety |-> ElementType(val.ty),
                 vals |-> val.v.seq, idx |-> -1])

\* Mutant: the keys are kept in the order `range` produced them (no sort).
newMapElementIterator_Unsorted(val, order) ==
    IF val.v.shape # "map" THEN Panic
    ELSE Return([kind |-> "map", ety |-> ElementType(val.ty),
                 vals |-> val.v.map, keys |-> order, idx |-> -1])

newMapElementIterator(val, order) ==
    IF val.v.shape # "map" THEN Panic
    ELSE Return([kind |-> "map", ety |-> ElementType(val.ty),
                 vals |-> val.v.map, keys |-> SortStrings(order), idx |-> -1])

newSetElementIterator(val) ==
    IF val.v.shape # "set" THEN Panic
    ELSE Return([kind |-> "set", ety |-> ElementType(val.ty),
                 setIt |-> set_Iterator(val.v)])

newTupleElementIterator(val) ==
    IF val.v.shape # "slice" THEN Panic
    ELSE Return([kind |-> "tuple", etys |-> TupleElementTypes(val.ty),
                 vals |-> val.v.seq, idx |-> -1])

\* Mutant: a non-collection value gets an empty iterator instead of a panic.
nonCollection_Empty(val) ==
    Return([kind |-> "list", ety |-> val.ty, vals |-> <<>>, idx |-> -1])

nonCollection(val) == Panic

elementIterator(val, order) ==
    CASE IsListType(val.ty) -> newListElementIterator(val)
      [] IsMapType(val.ty) -> newMapElementIterator(val, order)
      [] IsSetType(val.ty) -> newSetElementIterator(val)
      [] IsTupleType(val.ty) -> newTupleElementIterator(val)
      [] OTHER -> nonCollection(val)

(***************************************************************************)
(* The methods.  Next returns the iterator after the call and the result;  *)
(* Element returns the iterator after the call and either the (key, value) *)
(* pair or a panic (index out of range).                                   *)
(***************************************************************************)
InRange(i, s) == i >= 0 /\ i < Len(s)
ElementPanic(it) == [it |-> it, ok |-> FALSE, pair |-> <<>>]
ElementReturn(it, key, value) == [it |-> it, ok |-> TRUE, pair |-> <<key, value>>]

\* Mutant: Element moves the cursor on after reading (a consuming read).
listElementIterator_Element_Advancing(it) ==
    LET i == it.idx
    IN  IF ~InRange(i, it.vals) THEN ElementPanic(it)
        ELSE ElementReturn([it EXCEPT !.idx = i + 1],
                           NumberIntVal(i), Value(it.ety, it.vals[i + 1]))

\* Mutant: an index outside the sequence is clamped to the nearest element.
listElementIterator_Element_Clamped(it) ==
    LET i == IF it.idx < 0 THEN 0
             ELSE IF it.idx >= Len(it.vals) THEN Len(it.vals) - 1
             ELSE it.idx
    IN  IF ~InRange(i, it.vals) THEN ElementPanic(it)
        ELSE ElementReturn(it, NumberIntVal(i), Value(it.ety, it.vals[i + 1]))

listElementIterator_Element(it) ==
    LET i == it.idx
    IN  IF ~InRange(i, it.vals) THEN ElementPanic(it)
        ELSE ElementReturn(it, NumberIntVal(i), Value(it.ety, it.vals[i + 1]))

\* Mutant: the bound check is off by one (<= for <).
listElementIterator_Next_OffByOne(it) ==
    LET idx == it.idx + 1
    IN  [it |-> [it EXCEPT !.idx = idx], ret |-> idx <= Len(it.vals)]

\* Mutant: the bound check tests inequality (!= for <).
listElementIterator_Next_NotEqual(it) ==
    LET idx == it.idx + 1
    IN  [it |-> [it EXCEPT !.idx = idx], ret |-> idx # Len(it.vals)]

\* Mutant: Next stops incrementing once the index has reached the length.
listElementIterator_Next_Saturating(it) ==
    LET idx == IF it.idx >= Len(it.vals) THEN it.idx ELSE it.idx + 1
    IN  [it |-> [it EXCEPT !.idx = idx], ret |-> idx < Len(it.vals)]

listElementIterator_Next(it) ==
    LET idx == it.idx + 1
    IN  [it |-> [it EXCEPT !.idx = idx], ret |-> idx < Len(it.vals)]

\* Mutant: Element removes the entry it has just read from the mapping.
mapElementIterator_Element_Consuming(it) ==
    IF ~InRange(it.idx, it.keys) THEN ElementPanic(it)
    ELSE LET key == it.keys[it.idx + 1]
             v == IF key \in DOMAIN it.vals THEN it.vals[key] ELSE "nil"
             rest == [k \in (DOMAIN it.vals) \ {key} |-> it.vals[k]]
         IN  ElementReturn([it EXCEPT !.vals = rest], StringVal(key), Value(it.ety, v))

mapElementIterator_Element(it) ==
    IF ~InRange(it.idx, it.keys) THEN ElementPanic(it)
    ELSE LET key == it.keys[it.idx + 1]
             v == IF key \in DOMAIN it.vals THEN it.vals[key] ELSE "nil"
         IN  ElementReturn(it, StringVal(key), Value(it.ety, v))

\* Mutant: the bound check is off by one (<= for <).
mapElementIterator_Next_OffByOne(it) ==
    LET idx == it.idx + 1
    IN  [it |-> [it EXCEPT !.idx = idx], ret |-> idx <= Len(it.keys)]

mapElementIterator_Next(it) ==
    LET idx == it.idx + 1
    IN  [it |-> [it EXCEPT !.idx = idx], ret |-> idx < Len(it.keys)]

\* Mutant: the key is the element's position, as for a list.
setElementIterator_Element_IndexKey(it) ==
    ElementReturn(it, NumberIntVal(it.setIt.pos - 1),
                  Value(it.ety, set_Iterator_Value(it.setIt)))

setElementIterator_Element(it) ==
    LET val == Value(it.ety, set_Iterator_Value(it.setIt))
    IN  ElementReturn(it, val, val)

setElementIterator_Next(it) ==
    LET r == set_Iterator_Next(it.setIt)
    IN  [it |-> [it EXCEPT !.setIt = r.sit], ret |-> r.ret]

\* Mutant: every position gets the type of the first position.
tupleElementIterator_Element_FirstType(it) ==
    LET i == it.idx
    IN  IF ~InRange(i, it.etys) \/ ~InRange(i, it.vals) THEN ElementPanic(it)
        ELSE ElementReturn(it, NumberIntVal(i), Value(it.etys[1], it.vals[i + 1]))

tupleElementIterator_Element(it) ==
    LET i == it.idx
    IN  IF ~InRange(i, it.etys) \/ ~InRange(i, it.vals) THEN ElementPanic(it)
        ELSE ElementReturn(it, NumberIntVal(i), Value(it.etys[i + 1], it.vals[i + 1]))

\* Mutant: the bound check is off by one (<= for <).
tupleElementIterator_Next_OffByOne(it) ==
    LET idx == it.idx + 1
    IN  [it |-> [it EXCEPT !.idx = idx], ret |-> idx <= Len(it.vals)]

\* Mutant: Next rewinds the cursor to before the first position once it has
\* run past the end.
tupleElementIterator_Next_Rewinding(it) ==
    LET idx == it.idx + 1
    IN  [it |-> [it EXCEPT !.idx = IF idx < Len(it.vals) THEN idx ELSE -1],
         ret |-> idx < Len(it.vals)]

tupleElementIterator_Next(it) ==
    LET idx == it.idx + 1
    IN  [it |-> [it EXCEPT !.idx = idx], ret |-> idx < Len(it.vals)]

\* Dispatch through the ElementIterator interface.
ElementIterator_Next(it) ==
    CASE it.kind = "list" -> listElementIterator_Next(it)
      [] it.kind = "map" -> mapElementIterator_Next(it)
      [] it.kind = "set" -> setElementIterator_Next(it)
      [] it.kind = "tuple" -> tupleElementIterator_Next(it)

ElementIterator_Element(it) ==
    CASE it.kind = "list" -> listElementIterator_Element(it)
      [] it.kind = "map" -> mapElementIterator_Element(it)
      [] it.kind = "set" -> setElementIterator_Element(it)
      [] it.kind = "tuple" -> tupleElementIterator_Element(it)

(***************************************************************************)
(* The source values the caller may hold.  Value construction is outside   *)
(* this file, so a value is any (type, payload) pair: well-formed          *)
(* collections, collections whose payload has the wrong shape, and         *)
(* non-collection values.                                                  *)
(***************************************************************************)
RawSeq == <<"x", "y", "z">>
Raw == {RawSeq[k] : k \in DOMAIN RawSeq}
ElemTypes == {String, Number}
KeySeq == << <<98>>, <<97, 98>>, <<>>, <<97>> >>
KeyStrings == {KeySeq[k] : k \in DOMAIN KeySeq}

SeqsUpTo(S, n) == UNION {[1..k -> S] : k \in 0..n}
Injective(s) == \A a, b \in DOMAIN s : s[a] = s[b] => a = b
\* The orders in which a set of keys (or of elements) can be enumerated.
Orders(K) == {s \in [1..Cardinality(K) -> K] : Injective(s)}
KeySets == {K \in SUBSET KeyStrings : Cardinality(K) <= MaxLen}
RawMaps == UNION {[K -> Raw] : K \in KeySets}

ListValues ==
    {Value(ListT(e), SliceV(s)) : e \in ElemTypes, s \in SeqsUpTo(Raw, MaxLen)}
MapValues == {Value(MapT(e), MapV(m)) : e \in ElemTypes, m \in RawMaps}
SetValues ==
    {Value(SetT(e), SetV(s)) :
        e \in ElemTypes, s \in {q \in SeqsUpTo(Raw, MaxLen) : Injective(q)}}
TupleValues ==
    {Value(TupleT(es), SliceV(s)) :
        es \in SeqsUpTo(ElemTypes, MaxLen), s \in SeqsUpTo(Raw, MaxLen)}
Payloads == {SliceV(<<"x">>), MapV(<<97>> :> "x"), SetV(<<"x">>), ScalarV}
CollectionTypes == {ListT(String), MapT(String), SetT(String), TupleT(<<String>>)}
NonCollectionTypes == {String, Number, ObjectT}

IsCollection(ty) ==
    IsListType(ty) \/ IsMapType(ty) \/ IsSetType(ty) \/ IsTupleType(ty)
\* The payload has the dynamic type the type's case of elementIterator asserts.
ShapeMatches(v) ==
    \/ (IsListType(v.ty) \/ IsTupleType(v.ty)) /\ v.v.shape = "slice"
    \/ IsMapType(v.ty) /\ v.v.shape = "map"
    \/ IsSetType(v.ty) /\ v.v.shape = "set"
\* The data model's invariant: the payload matches the type's variant, and
\* a tuple has one type per position.
WellFormed(v) ==
    /\ ShapeMatches(v)
    /\ IsTupleType(v.ty) => Len(TupleElementTypes(v.ty)) = Len(v.v.seq)

Values ==
    ListValues \cup MapValues \cup SetValues \cup TupleValues
    \cup {Value(ty, pl) : ty \in CollectionTypes \cup NonCollectionTypes, pl \in Payloads}

\* What `range rawMap` may produce for val: any order of the keys.
RangeOrders(v) ==
    IF IsMapType(v.ty) /\ v.v.shape = "map" THEN Orders(DOMAIN v.v.map) ELSE {<<>>}

(***************************************************************************)
(* State.  val is the source value; its are the iterators obtained from it *)
(* so far; calls and panics count the elementIterator calls and those that *)
(* panicked; budget is how many iterators the caller will ask for.  obs    *)
(* records what the caller saw of each iterator: rets, the results of its  *)
(* Next calls; cur, the outcome of the Element calls since the last Next;  *)
(* yields, the pairs Element returned, one per position.                   *)
(***************************************************************************)
VARIABLES val, its, calls, panics, budget, obs

vars == <<val, its, calls, panics, budget, obs>>

NoElement == [st |-> "none", pair |-> <<>>]
FreshObs == [rets |-> <<>>, cur |-> NoElement, yields |-> <<>>]

InitWith(vs, b) ==
    /\ val \in vs
    /\ its = <<>>
    /\ obs = <<>>
    /\ calls = 0
    /\ panics = 0
    /\ budget = b

Init == InitWith(Values, 1)

\* it := elementIterator(val)
NewIterator ==
    /\ calls < budget
    /\ \E order \in RangeOrders(val) :
          LET r == elementIterator(val, order)
          IN  /\ calls' = calls + 1
              /\ IF r.ok
                 THEN /\ its' = Append(its, r.it)
                      /\ obs' = Append(obs, FreshObs)
                      /\ UNCHANGED panics
                 ELSE /\ panics' = panics + 1
                      /\ UNCHANGED <<its, obs>>
    /\ UNCHANGED <<val, budget>>

\* Mutant: the iterators share one cursor, so a Next on one moves them all.
CallNext_SharedCursor(i) ==
    /\ Len(obs[i].rets) < MaxLen + ExtraNext
    /\ LET r == ElementIterator_Next(its[i])
       IN  /\ its' = [j \in DOMAIN its |-> ElementIterator_Next(its[j]).it]
           /\ obs' = [obs EXCEPT ![i].rets = Append(@, r.ret),
                                 ![i].cur = NoElement]
    /\ UNCHANGED <<val, calls, panics, budget>>

\* its[i].Next()
CallNext(i) ==
    /\ Len(obs[i].rets) < MaxLen + ExtraNext
    /\ LET r == ElementIterator_Next(its[i])
       IN  /\ its' = [its EXCEPT ![i] = r.it]
           /\ obs' = [obs EXCEPT ![i].rets = Append(@, r.ret),
                                 ![i].cur = NoElement]
    /\ UNCHANGED <<val, calls, panics, budget>>

\* The set cursor's Value is specified only while an element is current.
ElementDefined(it) == it.kind = "set" => set_Iterator_HasValue(it.setIt)

\* key, value := its[i].Element()
CallElement(i) ==
    /\ ElementDefined(its[i])
    /\ LET r == ElementIterator_Element(its[i])
           first == r.ok /\ obs[i].cur.st = "none"
       IN  /\ its' = [its EXCEPT ![i] = r.it]
           /\ obs' = [obs EXCEPT
                 ![i].cur = [st |-> IF r.ok THEN "ok" ELSE "panic", pair |-> r.pair],
                 ![i].yields = IF first THEN Append(@, r.pair) ELSE @]
    /\ UNCHANGED <<val, calls, panics, budget>>

Next ==
    \/ NewIterator
    \/ \E i \in DOMAIN its : CallNext(i)
    \/ \E i \in DOMAIN its : CallElement(i)

Spec == Init /\ [][Next]_vars

\* The same program with a caller that asks for several iterators over one
\* well-formed collection: for each kind and each length, the value whose
\* elements (and keys) differ from position to position.
TypeAt(k) == IF k % 2 = 1 THEN String ELSE Number
PairValues ==
    UNION {{Value(ListT(String), SliceV([k \in 1..n |-> RawSeq[k]])),
            Value(MapT(String), MapV([key \in {KeySeq[k] : k \in 1..n} |->
                        RawSeq[CHOOSE k \in 1..n : KeySeq[k] = key]])),
            Value(SetT(String), SetV([k \in 1..n |-> RawSeq[k]])),
            Value(TupleT([k \in 1..n |-> TypeAt(k)]), SliceV([k \in 1..n |-> RawSeq[k]]))} :
           n \in 0..MaxLen}
InitPair == InitWith(PairValues, MaxIters)
SpecPair == InitPair /\ [][Next]_vars

(***************************************************************************)
(* What the properties below speak of.                                     *)
(***************************************************************************)
Last(s) == s[Len(s)]
\* Number of elements of the source value's payload.
SourceLen(v) == IF v.v.shape = "map" THEN Cardinality(DOMAIN v.v.map) ELSE Len(v.v.seq)
\* The key of a mapping that has exactly p - 1 keys before it.
KeyAt(m, p) ==
    CHOOSE key \in DOMAIN m : Cardinality({k \in DOMAIN m : StrLess(k, key)}) = p - 1
\* The source's own (key, value) pair for position p = 1, 2, ...
SourcePair(v, p) ==
    CASE IsListType(v.ty) ->
           <<NumberIntVal(p - 1), Value(ElementType(v.ty), v.v.seq[p])>>
      [] IsTupleType(v.ty) ->
           <<NumberIntVal(p - 1), Value(TupleElementTypes(v.ty)[p], v.v.seq[p])>>
      [] IsMapType(v.ty) ->
           <<StringVal(KeyAt(v.v.map, p)),
             Value(ElementType(v.ty), v.v.map[KeyAt(v.v.map, p)])>>
      [] IsSetType(v.ty) ->
           <<Value(ElementType(v.ty), v.v.seq[p]), Value(ElementType(v.ty), v.v.seq[p])>>
Exhausted(i) == Len(obs[i].rets) > 0 /\ ~Last(obs[i].rets)
\* Iterator i was driven by the usual loop to the end: Element after every
\* successful Next, and a last Next that returned false.
FullyDriven(i) ==
    /\ Exhausted(i)
    /\ Len(obs[i].yields) = Cardinality({k \in DOMAIN obs[i].rets : obs[i].rets[k]})
\* The Next results are true for exactly the first n calls.
TrueForFirst(rets, n) == \A k \in DOMAIN rets : rets[k] = (k <= n)

\* C1: for a list or tuple whose sequence has length N, Next returns true on
\* exactly the first N calls and false afterwards, and the keys Element
\* returns after the successive true results are 0, 1, ..., N-1 in order.
C1_ListTupleKeys ==
    (IsListType(val.ty) \/ IsTupleType(val.ty)) =>
        \A i \in DOMAIN its :
            /\ TrueForFirst(obs[i].rets, Len(val.v.seq))
            /\ obs[i].cur.st = "ok" =>
                  obs[i].cur.pair[1] = NumberIntVal(Len(obs[i].rets) - 1)
            /\ \A k \in DOMAIN obs[i].yields :
                  /\ obs[i].yields[k][1].ty = Number
                  /\ obs[i].yields[k][1].v \in 0..(Len(val.v.seq) - 1)
                  /\ k > 1 => obs[i].yields[k - 1][1].v < obs[i].yields[k][1].v
            /\ FullyDriven(i) =>
                  /\ Len(obs[i].yields) = Len(val.v.seq)
                  /\ \A k \in DOMAIN obs[i].yields :
                        obs[i].yields[k][1] = NumberIntVal(k - 1)

C1_Witness ==
    \E i \in DOMAIN its :
        /\ IsListType(val.ty)
        /\ Len(val.v.seq) = MaxLen
        /\ FullyDriven(i)
        /\ Len(obs[i].rets) = MaxLen + 1
        /\ Len(obs[i].yields) = MaxLen

\* C2: for a map, the iterator yields each key exactly once, in strictly
\* ascending string order whatever order the mapping enumerates its keys in,
\* and the number of successful Next calls equals the number of entries.
C2_MapKeysAscending ==
    IsMapType(val.ty) =>
        \A i \in DOMAIN its :
            /\ TrueForFirst(obs[i].rets, Cardinality(DOMAIN val.v.map))
            /\ obs[i].cur.st = "ok" =>
                  obs[i].cur.pair[1] = StringVal(KeyAt(val.v.map, Len(obs[i].rets)))
            /\ \A k \in DOMAIN obs[i].yields :
                  /\ obs[i].yields[k][1].ty = String
                  /\ obs[i].yields[k][1].v \in DOMAIN val.v.map
                  /\ k > 1 => StrLess(obs[i].yields[k - 1][1].v, obs[i].yields[k][1].v)
            /\ FullyDriven(i) =>
                  {obs[i].yields[k][1].v : k \in DOMAIN obs[i].yields} = DOMAIN val.v.map

C2_Witness ==
    \E i \in DOMAIN its :
        /\ IsMapType(val.ty)
        /\ DOMAIN val.v.map = {<<98>>, <<97>>}
        /\ FullyDriven(i)
        /\ Len(obs[i].yields) = 2
        /\ obs[i].yields[1][1] = StringVal(<<97>>)
        /\ obs[i].yields[2][1] = StringVal(<<98>>)

\* C3: elementIterator on a value whose type is none of list, map, set or
\* tuple panics: every such call faults and no iterator is ever returned.
C3_NonCollectionPanics ==
    ~IsCollection(val.ty) => its = <<>> /\ panics = calls

C3_Witness ==
    /\ val.ty = ObjectT
    /\ val.v.shape = "map"
    /\ calls = 1
    /\ panics = 1
    /\ its = <<>>

\* The position of an iterator: how many elements its cursor has moved on to.
Position(it) == IF it.kind = "set" THEN it.setIt.pos ELSE it.idx + 1
CommonCalls(i, j) == (DOMAIN obs[i].rets) \cap (DOMAIN obs[j].rets)

\* C4: with several iterators over one unchanged value, driven interleaved
\* in any order, each iterator stands where its own Next calls put it and
\* returns the Next results and (key, value) pairs it would return alone.
C4_IteratorsIndependent ==
    \A i \in DOMAIN its :
        /\ TrueForFirst(obs[i].rets, SourceLen(val))
        /\ IF its[i].kind = "set"
           THEN Position(its[i]) =
                   IF Exhausted(i) THEN SourceLen(val) + 1 ELSE Len(obs[i].rets)
           ELSE Position(its[i]) = Len(obs[i].rets)
        /\ obs[i].cur.st = "ok" => obs[i].cur.pair = SourcePair(val, Len(obs[i].rets))
        /\ FullyDriven(i) =>
              obs[i].yields = [k \in 1..SourceLen(val) |-> SourcePair(val, k)]

C4_Witness ==
    /\ Len(its) >= 2
    /\ SourceLen(val) = MaxLen
    /\ FullyDriven(1)
    /\ Len(obs[1].yields) = MaxLen
    /\ Len(obs[2].rets) = 1
    /\ obs[2].cur.st = "ok"
    /\ Position(its[2]) = 1

\* C5: every iterator requested from the unchanged value, whenever it is
\* requested, produces the same sequence of (key, value) pairs as every other
\* iterator over that value.
C5_ConstructionIdempotent ==
    \A i, j \in DOMAIN its :
        /\ \A k \in CommonCalls(i, j) : obs[i].rets[k] = obs[j].rets[k]
        /\ (/\ Len(obs[i].rets) = Len(obs[j].rets)
            /\ obs[i].cur.st = "ok"
            /\ obs[j].cur.st = "ok") => obs[i].cur.pair = obs[j].cur.pair
        /\ (FullyDriven(i) /\ FullyDriven(j)) => obs[i].yields = obs[j].yields

C5_Witness ==
    /\ Len(its) >= 2
    /\ IsMapType(val.ty)
    /\ SourceLen(val) = MaxLen
    /\ FullyDriven(1)
    /\ FullyDriven(2)
    /\ Len(obs[1].yields) = MaxLen
    /\ obs[1].yields = obs[2].yields

\* C6: for every kind of iterator, once a Next call has returned false every
\* later Next call on that iterator returns false too.
C6_ExhaustionIsFinal ==
    \A i \in DOMAIN its :
        \A k, l \in DOMAIN obs[i].rets :
            (k < l /\ ~obs[i].rets[k]) => ~obs[i].rets[l]

C6_Witness ==
    \E i \in DOMAIN its :
        /\ IsListType(val.ty)
        /\ Len(val.v.seq) = MaxLen
        /\ Len(obs[i].rets) = MaxLen + 2
        /\ ~obs[i].rets[MaxLen + 1]
        /\ ~obs[i].rets[MaxLen + 2]

HasIdx(i) == its[i].kind \in {"list", "map", "tuple"}
\* This step is a Next call on iterator i.
NextCalledOn(i) == Len(obs'[i].rets) = Len(obs[i].rets) + 1

\* C7 as stated: a Next call on an exhausted list, map or tuple iterator
\* leaves the iterator's index exactly as it was.
C7_ExhaustedNextKeepsIdx ==
    [][\A i \in DOMAIN its :
          (HasIdx(i) /\ Exhausted(i) /\ NextCalledOn(i)) => its'[i].idx = its[i].idx]_vars

\* C7 as amended: a Next call on an exhausted list, map or tuple iterator
\* increments the index by one and leaves every other field of the iterator
\* as it was.
C7_ExhaustedNextOnlyIncrementsIdx ==
    [][\A i \in DOMAIN its :
          (HasIdx(i) /\ Exhausted(i) /\ NextCalledOn(i)) =>
              its'[i] = [its[i] EXCEPT !.idx = @ + 1]]_vars

C7_Witness ==
    \E i \in DOMAIN its :
        /\ IsListType(val.ty)
        /\ Len(obs[i].rets) = Len(val.v.seq) + 2
        /\ Exhausted(i)
        /\ its[i].idx = Len(its[i].vals) + 1

\* C8: for an empty list, map, set or tuple the very first Next call returns
\* false.
C8_EmptyFirstNextFalse ==
    (IsCollection(val.ty) /\ SourceLen(val) = 0) =>
        \A i \in DOMAIN its : obs[i].rets # <<>> => ~obs[i].rets[1]

C8_Witness ==
    \E i \in DOMAIN its :
        /\ val.ty = TupleT(<<>>)
        /\ val.v = SliceV(<<>>)
        /\ obs[i].rets = <<FALSE>>

\* C9: for a set holding M distinct elements the iterator makes exactly M
\* successful Next calls and yields each element once, in the order of the
\* set's cursor, every Element call returning the same Value (element type,
\* current element) as key and as value.
C9_SetElements ==
    IsSetType(val.ty) =>
        \A i \in DOMAIN its :
            /\ TrueForFirst(obs[i].rets, Len(val.v.seq))
            /\ obs[i].cur.st = "ok" =>
                  /\ obs[i].cur.pair[1] = obs[i].cur.pair[2]
                  /\ obs[i].cur.pair[2] =
                        Value(ElementType(val.ty), val.v.seq[Len(obs[i].rets)])
            /\ \A k \in DOMAIN obs[i].yields : obs[i].yields[k][1] = obs[i].yields[k][2]
            /\ \A k, l \in DOMAIN obs[i].yields :
                  obs[i].yields[k] = obs[i].yields[l] => k = l
            /\ FullyDriven(i) =>
                  obs[i].yields =
                     [k \in 1..Len(val.v.seq) |->
                        <<Value(ElementType(val.ty), val.v.seq[k]),
                          Value(ElementType(val.ty), val.v.seq[k])>>]

C9_Witness ==
    \E i \in DOMAIN its :
        /\ IsSetType(val.ty)
        /\ Len(val.v.seq) = MaxLen
        /\ FullyDriven(i)
        /\ Len(obs[i].yields) = MaxLen

\* C10 as stated: for a collection value whose payload does not have the
\* shape its type requires, an iterator never yields a (key, value) pair and
\* then faults in the Element call that follows a later successful Next.
C10_MalformedFaultsAtFirstUse ==
    (IsCollection(val.ty) /\ ~WellFormed(val)) =>
        \A i \in DOMAIN its :
            ~(/\ obs[i].yields # <<>>
              /\ obs[i].rets # <<>>
              /\ Last(obs[i].rets)
              /\ obs[i].cur.st = "panic")

\* The native sequence or mapping of the source value, which the vals field
\* of a list, map or tuple iterator refers to (the field holds the slice or
\* map itself, not a copy).
SourceNative(v) == IF v.v.shape = "map" THEN v.v.map ELSE v.v.seq

\* C11: no sequence of elementIterator, Next and Element calls changes the
\* source value: the native sequence or mapping every iterator refers to is
\* at all times the one the value was built with, and no step changes val.
C11_SourceUnchanged ==
    /\ [](\A i \in DOMAIN its : HasIdx(i) => its[i].vals = SourceNative(val))
    /\ [][val' = val]_vars

C11_Witness ==
    /\ Len(its) >= 2
    /\ IsMapType(val.ty)
    /\ SourceLen(val) = MaxLen
    /\ FullyDriven(1)
    /\ Len(obs[1].yields) = MaxLen
    /\ obs[2].cur.st = "ok"
    /\ its[1].vals = val.v.map
    /\ its[2].vals = val.v.map

\* C12: the index of a list, map or tuple iterator is -1 when the iterator is
\* constructed and never decreases in any Next or Element call.
C12_IdxMonotonic ==
    [][\A i \in DOMAIN its' :
          its'[i].kind \in {"list", "map", "tuple"} =>
              IF i \in DOMAIN its
              THEN its'[i].idx >= its[i].idx
              ELSE its'[i].idx = -1]_vars

C12_Witness ==
    \E i \in DOMAIN its :
        /\ val.ty = TupleT(<<String, Number>>)
        /\ Len(val.v.seq) = 2
        /\ Len(obs[i].yields) = 2
        /\ Len(obs[i].rets) = 4
        /\ its[i].idx = 3

\* The last Next call on iterator i returned true.
AtElement(i) == obs[i].rets # <<>> /\ Last(obs[i].rets)

\* C13: after a Next call that returned true at position p, Element on a
\* list, map or tuple iterator returns the source's own element for that
\* position: key p (list, tuple) or the p-th key in sorted order as a string
\* (map), and the raw element with the list's or map's element type or the
\* tuple's type for that position.
C13_ElementIsSourceElement ==
    \A i \in DOMAIN its :
        (HasIdx(i) /\ obs[i].cur.st = "ok") =>
            /\ AtElement(i)
            /\ obs[i].cur.pair = SourcePair(val, Len(obs[i].rets))

C13_Witness ==
    \E i \in DOMAIN its :
        /\ val.ty = TupleT(<<String, Number>>)
        /\ val.v.seq = <<"x", "y">>
        /\ obs[i].rets = <<TRUE, TRUE>>
        /\ obs[i].cur.st = "ok"
        /\ obs[i].cur.pair = <<NumberIntVal(1), Value(Number, "y")>>

\* C14: for a well-formed list, map or tuple value, Element called after a
\* Next that returned true never faults: the index is then within the
\* sequence (or the key list), every key of the key list is a key of the
\* mapping, and for a tuple the index is within the per-position types.
C14_ElementAfterTrueNeverFaults ==
    WellFormed(val) =>
        \A i \in DOMAIN its :
            (HasIdx(i) /\ AtElement(i)) =>
                /\ obs[i].cur.st # "panic"
                /\ IF its[i].kind = "map"
                   THEN /\ InRange(its[i].idx, its[i].keys)
                        /\ \A k \in DOMAIN its[i].keys :
                               its[i].keys[k] \in DOMAIN its[i].vals
                   ELSE InRange(its[i].idx, its[i].vals)
                /\ its[i].kind = "tuple" => InRange(its[i].idx, its[i].etys)

C14_Witness ==
    \E i \in DOMAIN its :
        /\ IsMapType(val.ty)
        /\ SourceLen(val) = MaxLen
        /\ Len(obs[i].rets) = MaxLen
        /\ AtElement(i)
        /\ obs[i].cur.st = "ok"
        /\ its[i].idx = MaxLen - 1

\* C15: Element on a list, map or tuple iterator is read-only: the call
\* leaves the iterator (index, key list and all) as it was, a further Element
\* call before the next Next has the same outcome as the one before it, and
\* the result of a later Next depends only on the number of Next calls made.
C15_ElementReadOnly ==
    [][\A i \in DOMAIN its :
          HasIdx(i) =>
              /\ CallElement(i) =>
                    /\ its'[i] = its[i]
                    /\ obs[i].cur.st # "none" => obs'[i].cur = obs[i].cur
              /\ NextCalledOn(i) =>
                    Last(obs'[i].rets) = (Len(obs'[i].rets) <= SourceLen(val))]_vars

C15_Witness ==
    \E i \in DOMAIN its :
        /\ IsMapType(val.ty)
        /\ SourceLen(val) = MaxLen
        /\ FullyDriven(i)
        /\ Len(obs[i].yields) = MaxLen
        /\ its[i].idx = MaxLen
        /\ its[i].keys = [k \in 1..MaxLen |-> KeyAt(val.v.map, k)]

\* C16: on a list, map or tuple iterator, Element called before any Next
\* call, or after a Next call that returned false, faults and never returns
\* a (key, value) pair.
C16_ElementOutsideFaults ==
    /\ [](\A i \in DOMAIN its :
             (HasIdx(i) /\ ~AtElement(i)) => obs[i].cur.st # "ok")
    /\ [][\A i \in DOMAIN its :
             (HasIdx(i) /\ ~AtElement(i) /\ CallElement(i)) =>
                 /\ obs'[i].cur.st = "panic"
                 /\ obs'[i].yields = obs[i].yields]_vars

C16_Witness ==
    \E i \in DOMAIN its :
        /\ IsListType(val.ty)
        /\ Len(val.v.seq) = MaxLen
        /\ Len(obs[i].yields) = MaxLen
        /\ Exhausted(i)
        /\ obs[i].cur.st = "panic"

\* An Element call made before any Next call has faulted.
C16_WitnessBeforeNext ==
    \E i \in DOMAIN its :
        /\ IsListType(val.ty)
        /\ Len(val.v.seq) = MaxLen
        /\ obs[i].rets = <<>>
        /\ obs[i].cur.st = "panic"

====
